---- MODULE Spec2Model ----
(***************************************************************************)
(* Evaluation/scoring engine of BIRL (bm_ANHIR/evaluate_submission.py):    *)
(* landmark matching, the per-case filter, the resolution of incomplete    *)
(* cases in compute_scores, the stage sequencing of main and the           *)
(* preparation of its table; the user ranking matrix of                    *)
(* birl/utilities/drawing.py; the landmark warping of bm_DROP2.py.         *)
(*                                                                         *)
(* Conventions                                                             *)
(*  - a landmark is a pair <<x, y>> of integers; a landmark set is a       *)
(*    sequence of landmarks; indices reported in pairs are 0-based, as     *)
(*    numpy reports them;                                                  *)
(*  - a landmark file is a record [exists, pts];                           *)
(*  - a ratio is a fraction <<n, d>>; the table stores it rounded to two   *)
(*    decimals, i.e. as an integer number of hundredths;                   *)
(*  - a column name is a triple <<pre, fam, suf>> whose concatenation is   *)
(*    the pandas column name ("rTRE Mean" is <<"r", "TRE", " Mean">>).     *)
(***************************************************************************)
EXTENDS Integers, Sequences, FiniteSets, TLC

VARIABLES
    pc,         \* control position of the running entry point
    err,        \* the exception that ended the entry point, "none" otherwise
    setA,       \* match: first landmark set
    setB,       \* match: second landmark set
    thr,        \* match: threshold
    pairs,      \* match: returned correspondence
    files,      \* per case: the landmark files under the reference and dataset roots
    outFiles,   \* per case: the landmark files under the output root
    ret,        \* filter_landmarks: the returned (idx, ratio)
    firstRun,   \* filter_landmarks: what the first call on the case left behind
    table,      \* df_experiments: [columns, index, rows]
    table0,     \* df_experiments as it was when compute_scores was called
    minLandmarks, \* min_landmarks, in hundredths
    scores,     \* the aggregate report returned by compute_scores
    nbWorkers,  \* main: nb_workers
    nextRow,    \* executor: position of the next row the row iterator hands out
    running,    \* executor: the (idx, row) items the workers are processing
    ready,      \* executor: the results produced and not yet taken by main
    order,      \* per stage, the row labels in the order their processing finished
    cases,      \* export_summary_json: the parsed (idx, item) list
    json,       \* the exported summary (metrics.json)
    dfStat,     \* ranking: df_stat, per user the value of every scoring column
    higherBetter, \* ranking: higher_better
    ranking,    \* ranking: the matrix handed to draw_heatmap, [position][column]
    exptFiles,  \* the landmark files <<case, name>> found under the experiment folder
    compRef,    \* path_comp_bm and the reference computer-performance JSON
    compExp,    \* the computer-performance JSON of the experiment folder
    resultsExists, \* main: registration-results.csv is in the experiment folder
    csv,        \* main: the results CSV written under the output root
    dropItem,   \* DROP2: what the registration left in the registration folder
    dropOut     \* DROP2: what _extract_warped_image_landmarks saved and returned

matchVars == <<setA, setB, thr, pairs>>
filterVars == <<files, outFiles, ret, firstRun>>
scoreVars == <<table, table0, minLandmarks, scores>>
mainVars == <<nbWorkers, nextRow, running, ready, order, cases, json>>
rankVars == <<dfStat, higherBetter, ranking>>
prepVars == <<exptFiles, compRef, compExp>>
ioVars == <<resultsExists, csv>>
dropVars == <<dropItem, dropOut>>
unitVars == <<rankVars, prepVars, ioVars, dropVars>>
vars == <<pc, err, matchVars, filterVars, scoreVars, mainVars, unitVars>>

-----------------------------------------------------------------------------
(* Bounds of the model *)

MaxPts == 2
MaxCoord == 1
MaxThr == 1
MaxRows == 2
MaxWorkers == 2

YCoord == {0, 1}
Points == {<<x, y>> : x \in 0..MaxCoord, y \in YCoord}

RECURSIVE SeqsUpTo(_, _)
SeqsUpTo(S, n) ==
    IF n = 0 THEN {<<>>}
    ELSE LET shorter == SeqsUpTo(S, n - 1)
         IN  shorter \cup {Append(s, e) : s \in {t \in shorter : Len(t) = n - 1}, e \in S}

LandmarkSets == SeqsUpTo(Points, MaxPts)
Thresholds == (0 - 1) .. MaxThr

\* a landmark file: missing, or holding a landmark set
MissingFile == [exists |-> FALSE, pts |-> <<>>]
FileOf(s) == [exists |-> TRUE, pts |-> s]

\* the landmark files of the moving image of a case: landmarks on the two axes
DatasetPoints == {p \in Points : p[1] = 0 \/ p[2] = 0}
DatasetFiles == {MissingFile} \cup {FileOf(s) : s \in SeqsUpTo(DatasetPoints, MaxPts)}

\* the target (reference image) landmark files: n landmarks on a line
TargetLine(n) == [k \in 1..n |-> <<k - 1, 0>>]
TargetFiles == {MissingFile} \cup {FileOf(TargetLine(n)) : n \in 0..MaxPts}

\* the landmark files of one case (one row of the experiment table):
\*  refMove: row[COL_POINTS_MOVE] under path_reference
\*  dsMove:  row[COL_POINTS_MOVE] under path_dataset
\*  refRef:  row[COL_POINTS_REF] under path_reference
CaseFilesAll == [refMove : DatasetFiles, dsMove : DatasetFiles, refRef : TargetFiles]

NoOutput == [ref |-> MissingFile, move |-> MissingFile]
NoReturn == [idx |-> 0 - 1, ratio |-> <<0, 1>>]
NoFirstRun == [done |-> FALSE]

-----------------------------------------------------------------------------
(* The experiment table (pandas DataFrame df_experiments) *)

\* numeric cells are integers >= 0; NaN is the missing value
NaN == 0 - 1
NumEq(a, b) == a # NaN /\ b # NaN /\ a = b
NumLt(a, b) == a # NaN /\ b # NaN /\ a < b
NumGt(a, b) == a # NaN /\ b # NaN /\ a > b
NumPlus(a, b) == IF a = NaN \/ b = NaN THEN NaN ELSE a + b

COL_FOUND_LNDS == <<"Ration matched landmarks", "", "">>
COL_ROBUSTNESS == <<"Robustness", "", "">>
COL_OVERLAP_INIT == <<"overlap points (init)", "", "">>
COL_OVERLAP_FINAL == <<"overlap points (final)", "", "">>
COL_POINTS_REF == <<"Target landmarks", "", "">>
COL_POINTS_MOVE == <<"Source landmarks", "", "">>
COL_NORM_TIME == <<"Norm. execution time [minutes]", "", "">>
COL_TISSUE == <<"Tissue kind", "", "">>
COL_STATUS == <<"status", "", "">>
COL_TRE_MEAN == <<"", "TRE", " Mean">>
COL_RTRE_MEAN == <<"r", "TRE", " Mean">>
COL_IRE_MEAN == <<"", "IRE", " Mean">>
COL_RIRE_MEAN == <<"r", "IRE", " Mean">>
COL_RTRE_MEDIAN == <<"r", "TRE", " Median">>
COL_RTRE_MAX == <<"r", "TRE", " Max">>
COL_RIRE_MEDIAN == <<"r", "IRE", " Median">>
COL_RIRE_MAX == <<"r", "IRE", " Max">>

EmptyTable == [columns |-> {}, index |-> <<>>, rows |-> <<>>]
NoScores == [returned |-> FALSE]

\* the table state of an entry point that uses no table
ScoresIdle ==
    /\ table = EmptyTable
    /\ table0 = EmptyTable
    /\ minLandmarks = 100
    /\ scores = NoScores

Min(a, b) == IF a <= b THEN a ELSE b

NoOrder == [filter |-> <<>>, stat |-> <<>>, parse |-> <<>>]
NoJson == [written |-> FALSE]

\* the executor and export state of an entry point that is not main
MainIdle ==
    /\ nbWorkers = 1
    /\ nextRow = 1
    /\ running = {}
    /\ ready = {}
    /\ order = NoOrder
    /\ cases = <<>>
    /\ json = NoJson

\* the state of the entry points that are not running
RankIdle ==
    /\ dfStat = <<>>
    /\ higherBetter = FALSE
    /\ ranking = <<>>

NoComp == [given |-> FALSE, exists |-> FALSE, times |-> <<>>]

PrepIdle ==
    /\ exptFiles = {}
    /\ compRef = NoComp
    /\ compExp = NoComp

NoCsv == [written |-> FALSE]

IoIdle ==
    /\ resultsExists = TRUE
    /\ csv = NoCsv

NoDropOut == [returned |-> FALSE, readFailed |-> FALSE]

DropIdle ==
    /\ dropItem = <<>>
    /\ dropOut = NoDropOut

UnitsIdle == RankIdle /\ PrepIdle /\ IoIdle /\ DropIdle

\* the row r with the column c added (NaN) when it has none
WithColumn(r, c) ==
    [x \in (DOMAIN r) \cup {c} |-> IF x \in DOMAIN r THEN r[x] ELSE NaN]

\* df.loc[label, c] = v: the column is created when missing (NaN in the other
\* rows), the cell is set in every row labelled `label`, and a row is appended
\* when no row has that label
LocSetFirstEmpty(t, label, c, v) ==
    LET cols  == t.columns \cup {c}
        wide  == [k \in 1..Len(t.rows) |-> WithColumn(t.rows[k], c)]
        empty == {k \in 1..Len(t.rows) : wide[k][c] = NaN}
    IN  [columns |-> cols, index |-> t.index,
         rows |-> [k \in 1..Len(t.rows) |->
                      IF k \in empty /\ \A m \in empty : k <= m
                      THEN [wide[k] EXCEPT ![c] = v]
                      ELSE wide[k]]]
LocSet(t, label, c, v) ==
    LET cols == t.columns \cup {c}
        wide == [k \in 1..Len(t.rows) |-> WithColumn(t.rows[k], c)]
    IN  IF \E k \in 1..Len(t.index) : t.index[k] = label
        THEN [columns |-> cols, index |-> t.index,
              rows |-> [k \in 1..Len(t.rows) |->
                           IF t.index[k] = label THEN [wide[k] EXCEPT ![c] = v]
                           ELSE wide[k]]]
        ELSE [columns |-> cols, index |-> Append(t.index, label),
              rows |-> Append(wide, [x \in cols |-> IF x = c THEN v ELSE NaN])]

-----------------------------------------------------------------------------
(* LandmarkMatcher: common_landmarks(points1, points2, threshold) *)

\* squared Euclidean distance of two landmarks
Dist2(p, q) == (p[1] - q[1]) * (p[1] - q[1]) + (p[2] - q[2]) * (p[2] - q[2])

\* Euclidean distance <= threshold, on the squares
WithinThresholdStrict(d2, t) == t > 0 /\ d2 < t * t
WithinThresholdExact(d2, t) == t >= 0 /\ d2 = t * t
WithinThreshold(d2, t) == t >= 0 /\ d2 <= t * t

\* index (1-based) of the nearest point of B to p, lowest index on equal distance
Nearest(p, B) ==
    CHOOSE j \in 1..Len(B) :
        \A k \in 1..Len(B) :
            \/ Dist2(p, B[j]) < Dist2(p, B[k])
            \/ (Dist2(p, B[j]) = Dist2(p, B[k]) /\ j <= k)

\* the pairs of the points i..Len(A) of A, in A's index order
RECURSIVE MatchFrom(_, _, _, _)
MatchFrom(A, B, t, i) ==
    IF i > Len(A) THEN <<>>
    ELSE LET j    == Nearest(A[i], B)
             rest == MatchFrom(A, B, t, i + 1)
         IN  IF WithinThreshold(Dist2(A[i], B[j]), t)
             THEN <<<<i - 1, j - 1>>>> \o rest
             ELSE rest

\* common_landmarks: an empty correspondence, not an error, when a set is empty
CommonLandmarks(A, B, t) ==
    IF Len(A) = 0 \/ Len(B) = 0
    THEN [raised |-> "none", pairs |-> <<>>]
    ELSE [raised |-> "none", pairs |-> MatchFrom(A, B, t, 1)]

Match(A, B, t) == CommonLandmarks(A, B, t).pairs

Range(s) == {s[k] : k \in 1..Len(s)}

-----------------------------------------------------------------------------
(* Specification of the matcher alone: the inputs are drawn, match is applied *)

InitMatch ==
    /\ UnitsIdle
    /\ pc = "match_call"
    /\ err = "none"
    /\ files = <<>>
    /\ outFiles = <<>>
    /\ ret = NoReturn
    /\ firstRun = NoFirstRun
    /\ ScoresIdle
    /\ MainIdle
    /\ setA \in LandmarkSets
    /\ setB \in LandmarkSets
    /\ thr \in Thresholds
    /\ pairs = <<>>

DoMatch ==
    /\ pc = "match_call"
    /\ LET out == CommonLandmarks(setA, setB, thr)
       IN  /\ pairs' = out.pairs
           /\ err' = out.raised
           /\ pc' = IF out.raised = "none" THEN "match_done" ELSE "match_raised"
    /\ UNCHANGED <<unitVars, setA, setB, thr, filterVars, scoreVars, mainVars>>

NextMatch == DoMatch

SpecMatch == InitMatch /\ [][NextMatch]_vars

-----------------------------------------------------------------------------
(* Claims about the matcher, checked under SpecMatch *)

\* no index of either set occurs in two pairs of the correspondence c
Injective(c) ==
    \A m, n \in 1..Len(c) :
        m # n => (c[m][1] # c[n][1] /\ c[m][2] # c[n][2])

NearestLowest(p, B, j) ==
    \A k \in 1..Len(B) :
        /\ Dist2(p, B[j]) <= Dist2(p, B[k])
        /\ (Dist2(p, B[j]) = Dist2(p, B[k]) => j <= k)

\* the Euclidean distance of p and q exceeds the threshold t
Exceeds(p, q, t) == t < 0 \/ Dist2(p, q) > t * t

C11_RatioMonotoneInThreshold ==
    pc = "match_done" =>
        \A t2 \in Thresholds :
            thr <= t2 => Len(pairs) <= Len(Match(setA, setB, t2))

\* the threshold 0 kept one pair of two points, the threshold 1 keeps both
C11_Witness ==
    /\ pc = "match_done"
    /\ thr = 0
    /\ Len(setA) = 2
    /\ Len(pairs) = 1
    /\ Len(Match(setA, setB, 1)) = 2

-----------------------------------------------------------------------------
(* CaseFilter: filter_landmarks(idx_row, path_output, path_dataset, path_reference) *)

FilterThreshold == 1

\* load_landmarks: a missing file loads as no landmarks
LoadLandmarks(f) == IF f.exists THEN f.pts ELSE <<>>

\* sorted(pairs, key=lambda p: p[1]): stable insertion by the second index
RECURSIVE InsertBySecond(_, _)
InsertBySecond(s, p) ==
    IF s = <<>> THEN <<p>>
    ELSE IF s[Len(s)][2] <= p[2] THEN Append(s, p)
    ELSE Append(InsertBySecond(SubSeq(s, 1, Len(s) - 1), p), s[Len(s)])

RECURSIVE SortBySecond(_)
SortBySecond(s) ==
    IF s = <<>> THEN <<>>
    ELSE InsertBySecond(SortBySecond(SubSeq(s, 1, Len(s) - 1)), s[Len(s)])

\* lnds[ind]: the landmarks at the (0-based) indices ind, in the order of ind
TakeIndices(lnds, ind) == [k \in 1..Len(ind) |-> lnds[ind[k] + 1]]

\* save_landmarks(path, landmarks): the file is created or overwritten
SaveLandmarksAppend(old, lnds) == FileOf(old.pts \o lnds)
SaveLandmarks(old, lnds) == FileOf(lnds)

\* lines 139-141: ind_ref[ind_ref < nb_common], nb_common the smaller of the
\* sizes of the two landmark sets of the case
ClipIndicesToLarger(ind, nRef, nMove) ==
    SelectSeq(ind, LAMBDA i : i < (IF nRef >= nMove THEN nRef ELSE nMove))
ClipIndices(ind, nRef, nMove) ==
    SelectSeq(ind, LAMBDA i : i < Min(nRef, nMove))

\* lines 137-141: the indices that select the landmarks to save
FilterIndices(f) ==
    LET cl     == CommonLandmarks(LoadLandmarks(f.refMove), LoadLandmarks(f.dsMove),
                                  FilterThreshold)
        ps     == SortBySecond(cl.pairs)
        indAll == [k \in 1..Len(ps) |-> ps[k][1]]
    IN  ClipIndices(indAll, Len(LoadLandmarks(f.refRef)), Len(LoadLandmarks(f.refMove)))

\* lnds[ind] reads inside lnds
InBounds(lnds, ind) == \A k \in 1..Len(ind) : ind[k] < Len(lnds)

\* what one call does: the exception raised ("none": it returned), the returned
\* ratio <<n, d>>, and the landmark subsets it saves under the output root
\* (MissingFile: the file is not written)
FilterResult(raised, ratio, saved, outRef, outMove) ==
    [raised |-> raised, ratio |-> ratio, saved |-> saved,
     out |-> [ref |-> outRef, move |-> outMove]]

FilterLandmarksNoEarlyReturn(f) ==
    LET cl == CommonLandmarks(LoadLandmarks(f.refMove), LoadLandmarks(f.dsMove),
                              FilterThreshold)
        ps == SortBySecond(cl.pairs)
        lenRef == Len(LoadLandmarks(f.refRef))
    IN  IF cl.raised # "none"
        THEN FilterResult(cl.raised, <<0, 1>>, FALSE, MissingFile, MissingFile)
        ELSE IF Len(ps) = 0
        THEN FilterResult("IndexError", <<0, 1>>, FALSE, MissingFile, MissingFile)
        ELSE FilterResult("none", <<Len(ps), lenRef>>, FALSE, MissingFile, MissingFile)
FilterLandmarks(f) ==
    LET lndsRef  == LoadLandmarks(f.refMove)
        lndsLoad == LoadLandmarks(f.dsMove)
        cl       == CommonLandmarks(lndsRef, lndsLoad, FilterThreshold)
    IN  IF cl.raised # "none"
        THEN FilterResult(cl.raised, <<0, 1>>, FALSE, MissingFile, MissingFile)
        ELSE IF Len(cl.pairs) = 0
        THEN FilterResult("none", <<0, 1>>, FALSE, MissingFile, MissingFile)
        ELSE
        LET ps      == SortBySecond(cl.pairs)
            indRef  == FilterIndices(f)
            inRef   == LoadLandmarks(f.refRef)
            inMove  == LoadLandmarks(f.refMove)
            lenRef  == Len(LoadLandmarks(f.refRef))
        IN  IF ~InBounds(inRef, indRef)
            THEN FilterResult("IndexError", <<0, 1>>, FALSE, MissingFile, MissingFile)
            ELSE IF ~InBounds(inMove, indRef)
            THEN FilterResult("IndexError", <<0, 1>>, TRUE,
                              FileOf(TakeIndices(inRef, indRef)), MissingFile)
            ELSE IF lenRef = 0
            THEN FilterResult("ZeroDivisionError", <<0, 1>>, TRUE,
                              FileOf(TakeIndices(inRef, indRef)),
                              FileOf(TakeIndices(inMove, indRef)))
            ELSE FilterResult("none", <<Len(ps), lenRef>>, TRUE,
                              FileOf(TakeIndices(inRef, indRef)),
                              FileOf(TakeIndices(inMove, indRef)))

\* lines 144-148: the files under the output root after the call; the reference
\* subset is saved first
SaveSubsetsRefOnly(old, r) ==
    IF ~r.saved THEN old
    ELSE [ref  |-> IF r.out.ref.exists THEN SaveLandmarks(old.ref, r.out.ref.pts)
                   ELSE old.ref,
          move |-> old.move]
SaveSubsets(old, r) ==
    IF ~r.saved THEN old
    ELSE [ref  |-> IF r.out.ref.exists THEN SaveLandmarks(old.ref, r.out.ref.pts)
                   ELSE old.ref,
          move |-> IF r.out.move.exists THEN SaveLandmarks(old.move, r.out.move.pts)
                   ELSE old.move]

-----------------------------------------------------------------------------
(* Specification of filter_landmarks alone, on one case with index 0: the    *)
(* function is called, and called a second time on the same case             *)

\* the case of the scenario: reference [[0,0],[10,10]], submission [[0,0],[10,11]]
CaseScenario ==
    [refMove |-> FileOf(<<<<0, 0>>, <<10, 10>>>>),
     dsMove  |-> FileOf(<<<<0, 0>>, <<10, 11>>>>),
     refRef  |-> FileOf(TargetLine(2))]

InitFilter ==
    /\ UnitsIdle
    /\ pc = "filter_call"
    /\ err = "none"
    /\ files \in {<<f>> : f \in CaseFilesAll \cup {CaseScenario}}
    /\ outFiles = <<NoOutput>>
    /\ ret = NoReturn
    /\ firstRun = NoFirstRun
    /\ ScoresIdle
    /\ MainIdle
    /\ setA = <<>>
    /\ setB = <<>>
    /\ thr = FilterThreshold
    /\ pairs = <<>>

DoFilter ==
    /\ pc = "filter_call"
    /\ LET r == FilterLandmarks(files[1])
       IN  /\ outFiles' = <<SaveSubsets(outFiles[1], r)>>
           /\ err' = r.raised
           /\ IF r.raised = "none"
              THEN pc' = "filter_returned" /\ ret' = [idx |-> 0, ratio |-> r.ratio]
              ELSE pc' = "filter_raised" /\ ret' = ret
    /\ firstRun' = [done |-> TRUE, err |-> err', ret |-> ret', out |-> outFiles']
    /\ UNCHANGED <<unitVars, files, matchVars, scoreVars, mainVars>>

\* the second call on the same case, the files of the first call in place
DoFilterAgain ==
    /\ pc \in {"filter_returned", "filter_raised"}
    /\ LET r == FilterLandmarks(files[1])
       IN  /\ outFiles' = <<SaveSubsets(outFiles[1], r)>>
           /\ err' = r.raised
           /\ IF r.raised = "none"
              THEN pc' = "rerun_returned" /\ ret' = [idx |-> 0, ratio |-> r.ratio]
              ELSE pc' = "rerun_raised" /\ ret' = ret
    /\ UNCHANGED <<unitVars, files, firstRun, matchVars, scoreVars, mainVars>>

NextFilter == DoFilter \/ DoFilterAgain

SpecFilter == InitFilter /\ [][NextFilter]_vars

FirstCallOver == pc \in {"filter_returned", "filter_raised"}

\* the correspondence of the reference and the submitted landmarks of the case f
CasePairs(f) == Match(LoadLandmarks(f.refMove), LoadLandmarks(f.dsMove), FilterThreshold)

C13_RatioWithinUnit ==
    pc = "filter_returned" =>
        /\ 0 <= ret.ratio[1]
        /\ ret.ratio[1] <= ret.ratio[2]

\* C14: every index filter_landmarks selects landmarks with is a matched index
\* smaller than the size of both landmark sets of the case, so no selection reads
\* out of bounds, and the two saved files hold the same number of landmarks,
\* selected by the same indices in the same order.
C14_SelectionInBounds ==
    FirstCallOver =>
        LET f       == files[1]
            ind     == FilterIndices(f)
            inRef   == LoadLandmarks(f.refRef)
            inMove  == LoadLandmarks(f.refMove)
            matched == {q[1] : q \in Range(CasePairs(f))}
            out     == outFiles[1]
        IN  /\ err # "IndexError"
            /\ \A k \in 1..Len(ind) :
                  ind[k] \in matched /\ ind[k] < Len(inRef) /\ ind[k] < Len(inMove)
            /\ out.ref.exists <=> out.move.exists
            /\ out.ref.exists =>
                  /\ Len(out.ref.pts) = Len(ind)
                  /\ Len(out.move.pts) = Len(ind)
                  /\ \A k \in 1..Len(ind) :
                        /\ out.ref.pts[k] = inRef[ind[k] + 1]
                        /\ out.move.pts[k] = inMove[ind[k] + 1]

\* two pairs were found, the target file holds one landmark: one index is clipped
C14_Witness ==
    /\ pc = "filter_returned"
    /\ Len(CasePairs(files[1])) = 2
    /\ Len(LoadLandmarks(files[1].refRef)) = 1
    /\ outFiles[1].ref.exists
    /\ Len(outFiles[1].ref.pts) = 1
    /\ Len(outFiles[1].move.pts) = 1

-----------------------------------------------------------------------------
(* ScoreAggregator: compute_scores(df_experiments, min_landmarks) *)

\* re.match(r'(r)?TRE', col): the name starts with TRE or rTRE
ReMatchTRE(col) == col[1] \in {"", "r"} /\ col[2] = "TRE"

\* col.replace('TRE', 'IRE')
ReplaceTREbyIRE(col) == IF col[2] = "TRE" THEN <<col[1], "IRE", col[3]>> ELSE col

\* _filter_tre_measure_columns: the final columns; each is paired with
\* ReplaceTREbyIRE of itself
ColsFinal(t) == {c \in t.columns : ReMatchTRE(c)}

\* mask_incomplete of one row
MaskIncompleteBothRequired(r, minL) ==
    ~NumEq(r[COL_OVERLAP_INIT], r[COL_OVERLAP_FINAL]) /\ NumLt(r[COL_FOUND_LNDS], minL)
MaskIncomplete(r, minL) ==
    ~NumEq(r[COL_OVERLAP_INIT], r[COL_OVERLAP_FINAL]) \/ NumLt(r[COL_FOUND_LNDS], minL)

\* an incomplete row rewritten by its initial statistic, robustness 0
RewriteIncompleteZeroRatio(r, finals) ==
    [c \in DOMAIN r |->
        IF c \in finals THEN r[ReplaceTREbyIRE(c)]
        ELSE IF c \in {COL_ROBUSTNESS, COL_FOUND_LNDS} THEN 0
        ELSE r[c]]
RewriteIncompleteKeepRobustness(r, finals) ==
    [c \in DOMAIN r |-> IF c \in finals THEN r[ReplaceTREbyIRE(c)] ELSE r[c]]
RewriteIncomplete(r, finals) ==
    [c \in DOMAIN r |->
        IF c \in finals THEN r[ReplaceTREbyIRE(c)]
        ELSE IF c = COL_ROBUSTNESS THEN 0
        ELSE r[c]]

\* lines 236-247: the check of the final-overlap column and the rewrite of the
\* incomplete cases; [raised, table]
ResolveRewriteBeforeCheck(t, minL) ==
    IF COL_OVERLAP_FINAL \notin t.columns
    THEN [raised |-> "ValueError",
          table |-> [t EXCEPT !.rows = [k \in 1..Len(t.rows) |->
                        IF NumLt(t.rows[k][COL_FOUND_LNDS], minL)
                        THEN RewriteIncomplete(t.rows[k], ColsFinal(t))
                        ELSE t.rows[k]]]]
    ELSE [raised |-> "none",
          table |-> [t EXCEPT !.rows = [k \in 1..Len(t.rows) |->
                        IF MaskIncomplete(t.rows[k], minL)
                        THEN RewriteIncomplete(t.rows[k], ColsFinal(t))
                        ELSE t.rows[k]]]]
Resolve(t, minL) ==
    IF COL_OVERLAP_FINAL \notin t.columns
    THEN [raised |-> "ValueError", table |-> t]
    ELSE IF \E c \in ColsFinal(t) : ReplaceTREbyIRE(c) \notin t.columns
              /\ \E k \in 1..Len(t.rows) : MaskIncomplete(t.rows[k], minL)
    THEN [raised |-> "KeyError", table |-> t]
    ELSE IF \E k \in 1..Len(t.rows) : MaskIncomplete(t.rows[k], minL)
    THEN [raised |-> "none",
          table |-> [t EXCEPT !.rows = [k \in 1..Len(t.rows) |->
                        IF MaskIncomplete(t.rows[k], minL)
                        THEN RewriteIncomplete(t.rows[k], ColsFinal(t))
                        ELSE t.rows[k]]]]
    ELSE [raised |-> "none", table |-> t]

\* np.mean of a column over the rows ks: pandas skips the NaN cells; the mean is
\* the fraction <<sum, count>>, and NaN, written <<NaN, 0>>, when no cell is left
RECURSIVE SumCells(_, _, _)
SumCells(rows, c, ks) ==
    IF ks = {} THEN 0
    ELSE LET k == CHOOSE x \in ks : TRUE
         IN  rows[k][c] + SumCells(rows, c, ks \ {k})

Mean(rows, c, ks) ==
    LET valid == {k \in ks : rows[k][c] # NaN}
    IN  IF valid = {} THEN <<NaN, 0>>
        ELSE <<SumCells(rows, c, valid), Cardinality(valid)>>

\* df_experiments[df_experiments[COL_ROBUSTNESS] > 0.5]
RobustRowsAll(t) == 1..Len(t.rows)
RobustRows(t) == {k \in 1..Len(t.rows) : NumGt(t.rows[k][COL_ROBUSTNESS], 50)}

\* the cells of column c in the rows ks, in ascending order (np.median sorts)
RECURSIVE CellsInRowOrder(_, _, _)
CellsInRowOrder(rows, c, ks) ==
    IF ks = {} THEN <<>>
    ELSE LET k == CHOOSE x \in ks : \A y \in ks : x <= y
         IN  <<rows[k][c]>> \o CellsInRowOrder(rows, c, ks \ {k})
RECURSIVE SortedCells(_, _, _)
SortedCells(rows, c, ks) ==
    IF ks = {} THEN <<>>
    ELSE LET k == CHOOSE x \in ks : \A y \in ks : rows[x][c] <= rows[y][c]
         IN  <<rows[k][c]>> \o SortedCells(rows, c, ks \ {k})

\* np.median of a column over the rows ks: the column is turned into an array,
\* so one NaN cell makes the median NaN, and so does an empty column; the median
\* is the fraction <<m, 2>>, m twice the middle value of the sorted cells
MedianMiddleRow(rows, c, ks) ==
    IF ks = {} \/ \E k \in ks : rows[k][c] = NaN THEN <<NaN, 0>>
    ELSE LET v == CellsInRowOrder(rows, c, ks)
         IN  <<2 * v[(Len(v) \div 2) + 1], 2>>
Median(rows, c, ks) ==
    IF ks = {} \/ \E k \in ks : rows[k][c] = NaN THEN <<NaN, 0>>
    ELSE LET v == SortedCells(rows, c, ks)
             n == Len(v)
         IN  IF n % 2 = 1 THEN <<2 * v[(n + 1) \div 2], 2>>
             ELSE <<v[n \div 2] + v[(n \div 2) + 1], 2>>

\* stat_func(df[col]) for the two functions the report uses
StatFunc(stat, rows, c, ks) ==
    IF stat = "Average" THEN Mean(rows, c, ks) ELSE Median(rows, c, ks)

\* the keys of the report
TopKey(stat, name, robust) ==
    stat \o "-" \o name \o (IF robust THEN "-Robust" ELSE "")
StatusKey(stat, name, status) == stat \o "-" \o name \o "_" \o status
TissueKey(stat, name, tissue) == stat \o "-" \o name \o "_tissue_" \o tissue

\* lines 263-266 and 275-278: the (name, column) lists of the two loops
TopMeasures ==
    << <<"Median-rTRE", COL_RTRE_MEDIAN>>, <<"Max-rTRE", COL_RTRE_MAX>>,
       <<"Average-rTRE", COL_RTRE_MEAN>>, <<"Norm-Time", COL_NORM_TIME>> >>
GroupMeasures ==
    << <<"Average-rTRE", COL_RTRE_MEAN>>, <<"Median-rTRE", COL_RTRE_MEDIAN>>,
       <<"Max-rTRE", COL_RTRE_MAX>>, <<"Robustness", COL_ROBUSTNESS>> >>
StatFuncs == <<"Average", "Median">>

\* the rows of a status, of a tissue (lines 283 and 286)
AllRows(t) == 1..Len(t.rows)
GroupRowsComplement(t, col, v) == {k \in AllRows(t) : t.rows[k][col] # v}
GroupRows(t, col, v) == {k \in AllRows(t) : t.rows[k][col] = v}

\* the values of a column of strings: unique() of line 273, the groups of groupby
ValuesOf(t, col) == {t.rows[k][col] : k \in AllRows(t)}

\* a dict after the writes ws (a sequence of <<key, value>>), the last write of
\* a key being the one kept
RECURSIVE PutAll(_, _)
PutAll(d, ws) ==
    IF ws = <<>> THEN d
    ELSE PutAll((ws[1][1] :> ws[1][2]) @@ d, Tail(ws))

\* the concatenation of the sequences of ss
RECURSIVE Flatten(_)
Flatten(ss) == IF ss = <<>> THEN <<>> ELSE ss[1] \o Flatten(Tail(ss))

\* the values of the set S, one after the other
RECURSIVE SeqOfSet(_)
SeqOfSet(S) ==
    IF S = {} THEN <<>>
    ELSE LET x == CHOOSE y \in S : TRUE
         IN  <<x>> \o SeqOfSet(S \ {x})

\* lines 256-261: the first keys of the report
FirstWrites(t) ==
    << <<"Average-Robustness", Mean(t.rows, COL_ROBUSTNESS, AllRows(t))>>,
       <<"Average-Rank-Median-rTRE", <<NaN, 0>>>>,
       <<"Average-Rank-Max-rTRE", <<NaN, 0>>>>,
       <<"Average-used-landmarks",
         IF COL_FOUND_LNDS \in t.columns
         THEN Mean(t.rows, COL_FOUND_LNDS, RobustRows(t))
         ELSE <<0, 1>>>> >>

\* lines 263-270: mean and median of each measure, whole table and robust subset
TopWrites(t) ==
    Flatten([i \in 1..Len(TopMeasures) |->
        LET name == TopMeasures[i][1]
            col  == TopMeasures[i][2]
        IN  << <<TopKey("Average", name, FALSE), Mean(t.rows, col, AllRows(t))>>,
               <<TopKey("Average", name, TRUE), Mean(t.rows, col, RobustRows(t))>>,
               <<TopKey("Median", name, FALSE), Median(t.rows, col, AllRows(t))>>,
               <<TopKey("Median", name, TRUE), Median(t.rows, col, RobustRows(t))>> >>])

\* lines 275-287: per measure and function, the statuses, then the tissues
GroupWrites(t) ==
    Flatten([i \in 1..Len(GroupMeasures) |->
        Flatten([j \in 1..Len(StatFuncs) |->
            LET name == GroupMeasures[i][1]
                col  == GroupMeasures[i][2]
                stat == StatFuncs[j]
                sts  == SeqOfSet(ValuesOf(t, COL_STATUS))
                tis  == SeqOfSet(ValuesOf(t, COL_TISSUE))
            IN  [k \in 1..Len(sts) |->
                    <<StatusKey(stat, name, sts[k]),
                      StatFunc(stat, t.rows, col, GroupRows(t, COL_STATUS, sts[k]))>>]
                \o [k \in 1..Len(tis) |->
                    <<TissueKey(stat, name, tis[k]),
                      StatFunc(stat, t.rows, col, GroupRows(t, COL_TISSUE, tis[k]))>>]])])

\* the columns the report reads
ReportColumns ==
    {COL_ROBUSTNESS, COL_STATUS, COL_TISSUE, COL_NORM_TIME,
     COL_RTRE_MEAN, COL_RTRE_MEDIAN, COL_RTRE_MAX}

\* lines 249-289: the report; [raised, scores]
Aggregate(t) ==
    IF ~(ReportColumns \subseteq t.columns)
    THEN [raised |-> "KeyError", scores |-> NoScores]
    ELSE [raised |-> "none",
          scores |-> [returned |-> TRUE,
                      report |-> PutAll(<<>>, FirstWrites(t) \o TopWrites(t)
                                                 \o GroupWrites(t))]]

\* compute_scores, first part (lines 236-247)
ScoresResolveOnCopy ==
    /\ pc = "scores_call"
    /\ LET r == Resolve(table, minLandmarks)
       IN  /\ table' = table
           /\ err' = r.raised
           /\ pc' = IF r.raised = "none" THEN "scores_aggregate" ELSE "scores_raised"
    /\ UNCHANGED <<unitVars, table0, minLandmarks, scores, matchVars, filterVars, mainVars>>
ScoresResolve ==
    /\ pc = "scores_call"
    /\ LET r == Resolve(table, minLandmarks)
       IN  /\ table' = r.table
           /\ err' = r.raised
           /\ pc' = IF r.raised = "none" THEN "scores_aggregate" ELSE "scores_raised"
    /\ UNCHANGED <<unitVars, table0, minLandmarks, scores, matchVars, filterVars, mainVars>>

\* compute_scores, second part (lines 249-289): the report is made and returned
ScoresAggregate ==
    /\ pc = "scores_aggregate"
    /\ LET r == Aggregate(table)
       IN  /\ scores' = r.scores
           /\ err' = r.raised
           /\ pc' = IF r.raised = "none" THEN "scores_returned" ELSE "scores_raised"
    /\ UNCHANGED <<unitVars, table, table0, minLandmarks, matchVars, filterVars, mainVars>>

-----------------------------------------------------------------------------
(* Specification of compute_scores alone: the table is drawn, the function runs *)

OverlapInit == 2

\* one row of a table on which the per-case statistic has run: the overlap
\* counts, the robustness, the final errors (TRE) and the initial ones (IRE)
StatRow(ovF, ratio, rob, tre, rtre) ==
    (COL_OVERLAP_INIT :> OverlapInit) @@ (COL_OVERLAP_FINAL :> ovF)
    @@ (COL_FOUND_LNDS :> ratio) @@ (COL_ROBUSTNESS :> rob)
    @@ (COL_TRE_MEAN :> tre) @@ (COL_RTRE_MEAN :> rtre)
    @@ (COL_RTRE_MEDIAN :> NumPlus(rtre, 2)) @@ (COL_RTRE_MAX :> NumPlus(rtre, 4))
    @@ (COL_IRE_MEAN :> 3) @@ (COL_RIRE_MEAN :> 4)
    @@ (COL_RIRE_MEDIAN :> 7) @@ (COL_RIRE_MAX :> 8)

StatRows ==
    {StatRow(ovF, ratio, rob, v, v) :
        ovF \in {OverlapInit - 1, OverlapInit}, ratio \in {50, 100}, rob \in {0, 100},
        v \in {1, 2}}

\* the status and the tissue of a case, as the cover table and the path give them
Statuses == {"training", "evaluation"}
Tissues == {"lung-lesion", "mammary-gland"}

\* a row of the table compute_scores is given: the statistic, the status, the
\* tissue and the normalised time of the case
ScoreRow(stat, status, tissue, time) ==
    stat @@ (COL_STATUS :> status) @@ (COL_TISSUE :> tissue) @@ (COL_NORM_TIME :> time)

\* a complete, robust case
CompleteRow == StatRow(OverlapInit, 100, 100, 1, 1)

\* the rows drawn: every way a case is complete or not; the complete case in
\* every status and tissue; the complete case with a measure or the time missing
ScoreRows ==
    {ScoreRow(r, "training", "lung-lesion", r[COL_RTRE_MEAN]) : r \in StatRows}
    \cup {ScoreRow(CompleteRow, st, ti, 1) : st \in Statuses, ti \in Tissues}
    \cup {ScoreRow([CompleteRow EXCEPT ![COL_RTRE_MEDIAN] = NaN], "training", "lung-lesion", 2),
          ScoreRow(CompleteRow, "training", "lung-lesion", NaN),
          ScoreRow([CompleteRow EXCEPT ![COL_RTRE_MAX] = NaN], "evaluation", "mammary-gland", NaN)}

StatColumns == DOMAIN StatRow(0, 0, 0, 0, 0)
ScoreColumns == StatColumns \cup {COL_STATUS, COL_TISSUE, COL_NORM_TIME}

\* the row r without the column c
WithoutColumn(r, c) == [x \in (DOMAIN r) \ {c} |-> r[x]]

TableOf(rows, hasFinal) ==
    [columns |-> IF hasFinal THEN ScoreColumns ELSE ScoreColumns \ {COL_OVERLAP_FINAL},
     index   |-> [k \in 1..Len(rows) |-> k - 1],
     rows    |-> IF hasFinal THEN rows
                 ELSE [k \in 1..Len(rows) |-> WithoutColumn(rows[k], COL_OVERLAP_FINAL)]]

ScoreTables == {TableOf(rows, hasFinal) : rows \in SeqsUpTo(ScoreRows, MaxRows),
                                           hasFinal \in BOOLEAN}

InitScores ==
    /\ UnitsIdle
    /\ pc = "scores_call"
    /\ err = "none"
    /\ table \in ScoreTables
    /\ table0 = table
    /\ minLandmarks \in {50, 100}
    /\ scores = NoScores
    /\ MainIdle
    /\ files = <<>>
    /\ outFiles = <<>>
    /\ ret = NoReturn
    /\ firstRun = NoFirstRun
    /\ setA = <<>>
    /\ setB = <<>>
    /\ thr = FilterThreshold
    /\ pairs = <<>>

NextScores == ScoresResolve \/ ScoresAggregate

SpecScores == InitScores /\ [][NextScores]_vars

\* the row r is incomplete, as the claims state it
IncompleteRow(r, minL) ==
    r[COL_OVERLAP_INIT] # r[COL_OVERLAP_FINAL] \/ r[COL_FOUND_LNDS] < minL

\* C1: after the resolution of compute_scores, every incomplete row (overlap init
\* differs from overlap final, or match ratio below min_landmarks) has robustness
\* 0 and each final TRE/rTRE column equal to its paired IRE/rIRE column.
C1_IncompleteRowsFallBack ==
    pc \in {"scores_aggregate", "scores_returned"} =>
        \A k \in 1..Len(table.rows) :
            IncompleteRow(table.rows[k], minLandmarks) =>
                /\ table.rows[k][COL_ROBUSTNESS] = 0
                /\ table.rows[k][COL_TRE_MEAN] = table.rows[k][COL_IRE_MEAN]
                /\ table.rows[k][COL_RTRE_MEAN] = table.rows[k][COL_RIRE_MEAN]

\* a row with mismatched overlap, raw robustness 1 and final values that differ
\* from the initial ones has been resolved
C1_Witness ==
    /\ pc = "scores_returned"
    /\ \E k \in 1..Len(table.rows) :
          /\ table0.rows[k][COL_OVERLAP_INIT] # table0.rows[k][COL_OVERLAP_FINAL]
          /\ table0.rows[k][COL_FOUND_LNDS] >= minLandmarks
          /\ table0.rows[k][COL_ROBUSTNESS] = 100
          /\ table0.rows[k][COL_TRE_MEAN] # table0.rows[k][COL_IRE_MEAN]
          /\ table.rows[k][COL_ROBUSTNESS] = 0

\* C2: compute_scores on a table without the `overlap points (final)` column ends
\* in ValueError, returns no report and leaves every cell of the table as it was.
C2_MissingFinalColumnRaises ==
    (pc # "scores_call" /\ COL_OVERLAP_FINAL \notin table0.columns)
        => (/\ pc = "scores_raised"
            /\ err = "ValueError"
            /\ scores = NoScores
            /\ table = table0)

\* the call raised on a table that holds a row with too few matched landmarks
C2_Witness ==
    /\ pc = "scores_raised"
    /\ err = "ValueError"
    /\ COL_OVERLAP_FINAL \notin table0.columns
    /\ \E k \in 1..Len(table0.rows) :
          /\ table0.rows[k][COL_FOUND_LNDS] < minLandmarks
          /\ table0.rows[k][COL_ROBUSTNESS] = 100

\* the table t with its rows in the order p (a permutation of the row positions)
Permute(t, p) ==
    [columns |-> t.columns,
     index   |-> [k \in 1..Len(t.rows) |-> t.index[p[k]]],
     rows    |-> [k \in 1..Len(t.rows) |-> t.rows[p[k]]]]

\* the report compute_scores returns on the table t
ReportOf(t, minL) == Aggregate(Resolve(t, minL).table).scores

TrackedStatistics ==
    {<<"Average-rTRE", COL_RTRE_MEAN>>, <<"Median-rTRE", COL_RTRE_MEDIAN>>,
     <<"Max-rTRE", COL_RTRE_MAX>>, <<"Norm-Time", COL_NORM_TIME>>,
     <<"Robustness", COL_ROBUSTNESS>>, <<"used-landmarks", COL_FOUND_LNDS>>}
FullyReported == {m \in TrackedStatistics : m[1] \notin {"Robustness", "used-landmarks"}}

\* the rows with robustness > 0.5
RobustSubset(t) ==
    {k \in 1..Len(t.rows) : t.rows[k][COL_ROBUSTNESS] # NaN /\ t.rows[k][COL_ROBUSTNESS] > 50}

\* the report holds mean and median of the statistic m, on the whole table and
\* on the robust subset
FourEntries(rep, t, m) ==
    /\ {TopKey(st, m[1], rb) : st \in {"Average", "Median"}, rb \in BOOLEAN}
           \subseteq DOMAIN rep
    /\ rep[TopKey("Average", m[1], FALSE)] = Mean(t.rows, m[2], 1..Len(t.rows))
    /\ rep[TopKey("Average", m[1], TRUE)] = Mean(t.rows, m[2], RobustSubset(t))
    /\ rep[TopKey("Median", m[1], FALSE)] = Median(t.rows, m[2], 1..Len(t.rows))
    /\ rep[TopKey("Median", m[1], TRUE)] = Median(t.rows, m[2], RobustSubset(t))

\* C18, as stated: for each of the six tracked statistics (rTRE mean, median and
\* max, normalised time, robustness, matched-landmark ratio) the report holds
\* the mean and the median over the whole table and over the robust subset.
C18_FourEntriesEveryStatistic ==
    pc = "scores_returned" =>
        \A m \in TrackedStatistics : FourEntries(scores.report, table, m)

\* C18, amended: the report holds the mean and the median over the whole table
\* and over the robust subset for rTRE mean, rTRE median, rTRE max and the
\* normalised time; for the robustness it holds only the mean over the whole
\* table (Average-Robustness) and for the matched-landmark ratio only the mean
\* over the robust subset (Average-used-landmarks).
C18_FourEntriesOfRTREAndTime ==
    pc = "scores_returned" =>
        LET rep == scores.report
        IN  /\ \A m \in FullyReported : FourEntries(rep, table, m)
            /\ rep["Average-Robustness"] = Mean(table.rows, COL_ROBUSTNESS, 1..Len(table.rows))
            /\ rep["Average-used-landmarks"]
                   = Mean(table.rows, COL_FOUND_LNDS, RobustSubset(table))
            /\ \A st \in {"Average", "Median"} : \A rb \in BOOLEAN :
                  /\ (TopKey(st, "Robustness", rb) \in DOMAIN rep)
                         <=> (st = "Average" /\ ~rb)
                  /\ (TopKey(st, "used-landmarks", rb) \in DOMAIN rep)
                         <=> (st = "Average" /\ ~rb)

\* a report of a table with a robust and a non-robust row whose measures differ
C18_Witness ==
    /\ pc = "scores_returned"
    /\ Len(table.rows) = 2
    /\ Cardinality(RobustSubset(table)) = 1
    /\ table.rows[1][COL_RTRE_MEAN] # table.rows[2][COL_RTRE_MEAN]
    /\ table.rows[1][COL_FOUND_LNDS] # table.rows[2][COL_FOUND_LNDS]

\* the grouped metrics: the name the key carries, and the column
GroupedMetrics ==
    {<<"Average-rTRE", COL_RTRE_MEAN>>, <<"Median-rTRE", COL_RTRE_MEDIAN>>,
     <<"Max-rTRE", COL_RTRE_MAX>>, <<"Robustness", COL_ROBUSTNESS>>}

\* the values of the column col present in the table t, and the rows of one
PresentIn(t, col) == {t.rows[k][col] : k \in 1..Len(t.rows)}
RowsWith(t, col, v) == {k \in 1..Len(t.rows) : t.rows[k][col] = v}

\* the grouped keys of the report of t
StatusKeys(t) ==
    {StatusKey(st, m[1], v) :
        st \in {"Average", "Median"}, m \in GroupedMetrics, v \in PresentIn(t, COL_STATUS)}
TissueKeys(t) ==
    {TissueKey(st, m[1], v) :
        st \in {"Average", "Median"}, m \in GroupedMetrics, v \in PresentIn(t, COL_TISSUE)}

NonNaN(rows, c, ks) == {k \in ks : rows[k][c] # NaN}

\* C20: missing (NaN) cells are skipped by every aggregate of compute_scores,
\* mean and median alike: a column with some NaN cells yields the statistic of
\* its other cells; an empty group yields NaN and no error.
C20_NaNSkippedByMeanAndMedian ==
    /\ pc = "scores_raised" => err = "ValueError"
    /\ pc = "scores_returned" =>
          \A m \in FullyReported : \A rb \in BOOLEAN :
              LET ks == IF rb THEN RobustSubset(table) ELSE 1..Len(table.rows)
                  vs == NonNaN(table.rows, m[2], ks)
              IN  /\ scores.report[TopKey("Average", m[1], rb)]
                         = (IF vs = {} THEN <<NaN, 0>> ELSE Mean(table.rows, m[2], vs))
                  /\ scores.report[TopKey("Median", m[1], rb)]
                         = (IF vs = {} THEN <<NaN, 0>> ELSE Median(table.rows, m[2], vs))

-----------------------------------------------------------------------------
(* ParallelExecutor: iterate_mproc_map(fn, rows, nb_workers) *)

\* a worker may take the next row: one worker is the sequential, lazy map (the
\* next row is processed when main has taken the previous result); a pool has
\* nb_workers processes
CanDispatch(w) ==
    IF w = 1 THEN running = {} /\ ready = {} ELSE Cardinality(running) < w

IterDone == nextRow > Len(table.rows)

\* the result stream is exhausted
StageOver == IterDone /\ running = {} /\ ready = {}

\* the (idx, row) item that iterrows hands out next
NextItem == [idx |-> table.index[nextRow], row |-> table.rows[nextRow]]

-----------------------------------------------------------------------------
(* main(path_experiment, path_table, path_dataset, path_output, ...) *)

\* the worker count main gives each stage
StageWorkersAlwaysPool(stage) == nbWorkers
StageWorkers(stage) == IF stage = "filter" THEN nbWorkers ELSE 1

\* the status the cover table gives a case
StatusOf(case) == IF case = 1 THEN "training" ELSE "evaluation"

\* the merged table of n cases: the cell of a path column is the number of the
\* case whose files the path names
MergedTable(n) ==
    [columns |-> {COL_POINTS_REF, COL_POINTS_MOVE, COL_STATUS},
     index   |-> [k \in 1..n |-> k - 1],
     rows    |-> [k \in 1..n |-> (COL_POINTS_REF :> k) @@ (COL_POINTS_MOVE :> k)
                                    @@ (COL_STATUS :> StatusOf(k))]]

\* np.round(ratio, 2) of the ratio <<n, d>>, in hundredths (half to even)
Round2(q) ==
    LET n == 100 * q[1]
        d == q[2]
        f == n \div d
        r == n % d
    IN  IF 2 * r < d THEN f
        ELSE IF 2 * r > d THEN f + 1
        ELSE IF f % 2 = 0 THEN f ELSE f + 1

\* the landmark files of the cases main is run on
P0 == <<0, 0>>
P1 == <<1, 1>>
CaseFull == [refMove |-> FileOf(<<P0, P1>>), dsMove |-> FileOf(<<P0, P1>>),
             refRef |-> FileOf(TargetLine(2))]
CaseHalf == [refMove |-> FileOf(<<P0, P1>>), dsMove |-> FileOf(<<P0>>),
             refRef |-> FileOf(TargetLine(2))]
CaseMissing == [refMove |-> FileOf(<<P0, P1>>), dsMove |-> MissingFile,
                refRef |-> FileOf(TargetLine(2))]
CaseEmptyTarget == [refMove |-> FileOf(<<P0, P1>>), dsMove |-> FileOf(<<P0, P1>>),
                    refRef |-> FileOf(<<>>)]
CaseKinds == {CaseFull, CaseHalf, CaseMissing, CaseEmptyTarget}

\* what compute_registration_statistic writes into the row of a case: nothing,
\* or the overlap counts, the initial and final errors and the robustness
StatSkipped == [written |-> FALSE, cells |-> <<>>]
StatWritten(ovF, rob, tre) ==
    [written |-> TRUE,
     cells |-> WithoutColumn(StatRow(ovF, 0, rob, tre, tre), COL_FOUND_LNDS)]
StatOutcomes ==
    {StatSkipped, StatWritten(OverlapInit, 100, 1), StatWritten(OverlapInit - 1, 100, 1),
     StatWritten(OverlapInit, 100, NaN)}

\* df_experiments.loc[idx, col] = value for every col of cells
RECURSIVE LocSetAll(_, _, _, _)
LocSetAll(t, label, cells, cols) ==
    IF cols = {} THEN t
    ELSE LET c == CHOOSE x \in cols : TRUE
         IN  LocSetAll(LocSet(t, label, c, cells[c]), label, cells, cols \ {c})

MainInit ==
    /\ RankIdle
    /\ PrepIdle
    /\ DropIdle
    /\ resultsExists \in BOOLEAN
    /\ csv = NoCsv
    /\ pc = "main_start"
    /\ err = "none"
    /\ files \in {f \in SeqsUpTo(CaseKinds, MaxRows) : Len(f) >= 1}
    /\ outFiles = [k \in 1..Len(files) |-> NoOutput]
    /\ ret = NoReturn
    /\ firstRun = NoFirstRun
    /\ table = EmptyTable
    /\ table0 = EmptyTable
    /\ minLandmarks \in {50, 100}
    /\ scores = NoScores
    /\ nbWorkers \in 1..MaxWorkers
    /\ nextRow = 1
    /\ running = {}
    /\ ready = {}
    /\ order = NoOrder
    /\ cases = <<>>
    /\ json = NoJson
    /\ setA = <<>>
    /\ setB = <<>>
    /\ thr = FilterThreshold
    /\ pairs = <<>>

\* lines 410-425 alone: the tables are read and merged whatever the folder holds
MainStartNoCheck ==
    /\ pc = "main_start"
    /\ table' = MergedTable(Len(files))
    /\ pc' = "filter"
    /\ UNCHANGED <<unitVars, err, matchVars, filterVars, table0, minLandmarks, scores, mainVars>>

\* lines 406-425: without the results file main raises AttributeError; otherwise
\* the cover and the results table are merged, one row per case
MainStart ==
    /\ pc = "main_start"
    /\ IF resultsExists
       THEN /\ table' = MergedTable(Len(files))
            /\ pc' = "filter"
            /\ err' = err
       ELSE /\ table' = table
            /\ pc' = "main_aborted"
            /\ err' = "AttributeError"
    /\ UNCHANGED <<unitVars, matchVars, filterVars, table0, minLandmarks, scores, mainVars>>

(* lines 427-432: the filtering stage *)

FilterDispatch ==
    /\ pc = "filter"
    /\ ~IterDone
    /\ CanDispatch(StageWorkers("filter"))
    /\ running' = running \cup {NextItem}
    /\ nextRow' = nextRow + 1
    /\ UNCHANGED <<unitVars, pc, err, matchVars, filterVars, scoreVars, nbWorkers, ready, order,
                   cases, json>>

\* a worker finishes filter_landmarks on its row
FilterFinish(w) ==
    /\ pc = "filter"
    /\ w \in running
    /\ LET case == w.row[COL_POINTS_MOVE]
           r    == FilterLandmarks(files[case])
       IN  /\ outFiles' = [outFiles EXCEPT ![case] = SaveSubsets(@, r)]
           /\ ready' = ready \cup {[idx |-> w.idx, raised |-> r.raised, ratio |-> r.ratio]}
    /\ running' = running \ {w}
    /\ order' = [order EXCEPT !.filter = Append(@, w.idx)]
    /\ UNCHANGED <<unitVars, pc, err, matchVars, files, ret, firstRun, scoreVars, nbWorkers, nextRow,
                   cases, json>>

\* main takes a result from the stream (line 430) and writes the ratio (line 432);
\* an exception of the row function is raised in main
FilterConsume(r) ==
    /\ pc = "filter"
    /\ r \in ready
    /\ ready' = ready \ {r}
    /\ IF r.raised # "none"
       THEN /\ pc' = "main_raised"
            /\ err' = r.raised
            /\ table' = table
       ELSE /\ table' = LocSet(table, r.idx, COL_FOUND_LNDS, Round2(r.ratio))
            /\ UNCHANGED <<unitVars, pc, err>>
    /\ UNCHANGED <<unitVars, matchVars, filterVars, table0, minLandmarks, scores, nbWorkers,
                   nextRow, running, order, cases, json>>

FilterEnd ==
    /\ pc = "filter"
    /\ StageOver
    /\ pc' = "stat"
    /\ nextRow' = 1
    /\ UNCHANGED <<unitVars, err, matchVars, filterVars, scoreVars, nbWorkers, running, ready,
                   order, cases, json>>

(* lines 434-441: the per-case statistic stage *)

StatDispatch ==
    /\ pc = "stat"
    /\ ~IterDone
    /\ CanDispatch(StageWorkers("stat"))
    /\ running' = running \cup {NextItem}
    /\ nextRow' = nextRow + 1
    /\ UNCHANGED <<unitVars, pc, err, matchVars, filterVars, scoreVars, nbWorkers, ready, order,
                   cases, json>>

\* compute_registration_statistic on one row: it writes into df_experiments
StatFinish(w, o) ==
    /\ pc = "stat"
    /\ w \in running
    /\ o \in StatOutcomes
    /\ table' = IF o.written THEN LocSetAll(table, w.idx, o.cells, DOMAIN o.cells)
                 ELSE table
    /\ ready' = ready \cup {[idx |-> w.idx, raised |-> "none", ratio |-> <<0, 1>>]}
    /\ running' = running \ {w}
    /\ order' = [order EXCEPT !.stat = Append(@, w.idx)]
    /\ UNCHANGED <<unitVars, pc, err, matchVars, filterVars, table0, minLandmarks, scores,
                   nbWorkers, nextRow, cases, json>>

\* list(...) takes the result and drops it
StatConsume(r) ==
    /\ pc = "stat"
    /\ r \in ready
    /\ ready' = ready \ {r}
    /\ UNCHANGED <<unitVars, pc, err, matchVars, filterVars, scoreVars, nbWorkers, nextRow,
                   running, order, cases, json>>

\* lines 443-445: the stage is over, the table is exported as CSV; the order in
\* which the rows of the filtering stage finished, which nothing reads from here
\* on, is forgotten: its labels are kept in table order
StatEnd ==
    /\ pc = "stat"
    /\ StageOver
    /\ pc' = "export"
    /\ order' = [order EXCEPT !.filter = table.index]
    /\ csv' = [written |-> TRUE]
    /\ UNCHANGED <<rankVars, prepVars, dropVars, resultsExists, err, matchVars, filterVars, scoreVars,
                   nbWorkers, nextRow, running, ready, cases, json>>

(* export_summary_json(df_experiments, path_experiments, path_output, ...) *)

\* _get_tissue of the target landmarks path of a case
TissueOf(case) == IF case % 2 = 1 THEN "lung-lesion" ELSE "mammary-gland"

\* lines 316-324: the normalised-time column is created when missing, the tissue
\* column is set for every row
ExportPrepare ==
    /\ pc = "export"
    /\ table' =
         [columns |-> table.columns \cup {COL_NORM_TIME, COL_TISSUE},
          index   |-> table.index,
          rows    |-> [k \in 1..Len(table.rows) |->
                         [c \in table.columns \cup {COL_NORM_TIME, COL_TISSUE} |->
                             IF c = COL_TISSUE
                             THEN TissueOf(table.rows[k][COL_POINTS_REF])
                             ELSE IF c \in table.columns THEN table.rows[k][c]
                             ELSE NaN]]]
    /\ nextRow' = 1
    /\ pc' = "parse"
    /\ UNCHANGED <<unitVars, err, matchVars, filterVars, table0, minLandmarks, scores, nbWorkers,
                   running, ready, order, cases, json>>

\* parse_landmarks(idx_row): the item of one case
ParseLandmarks(row) ==
    [matched |-> IF COL_FOUND_LNDS \in DOMAIN row
                 THEN (IF row[COL_FOUND_LNDS] = NaN THEN 0 ELSE row[COL_FOUND_LNDS])
                 ELSE 0,
     robustness |-> IF COL_ROBUSTNESS \in DOMAIN row THEN row[COL_ROBUSTNESS] ELSE 0,
     tissue |-> row[COL_TISSUE]]

(* lines 326-328: the cases are parsed *)

ParseDispatch ==
    /\ pc = "parse"
    /\ ~IterDone
    /\ CanDispatch(StageWorkers("parse"))
    /\ running' = running \cup {NextItem}
    /\ nextRow' = nextRow + 1
    /\ UNCHANGED <<unitVars, pc, err, matchVars, filterVars, scoreVars, nbWorkers, ready, order,
                   cases, json>>

ParseFinish(w) ==
    /\ pc = "parse"
    /\ w \in running
    /\ ready' = ready \cup {[idx |-> w.idx, item |-> ParseLandmarks(w.row)]}
    /\ running' = running \ {w}
    /\ order' = [order EXCEPT !.parse = Append(@, w.idx)]
    /\ UNCHANGED <<unitVars, pc, err, matchVars, filterVars, scoreVars, nbWorkers, nextRow,
                   cases, json>>

ParseConsume(r) ==
    /\ pc = "parse"
    /\ r \in ready
    /\ ready' = ready \ {r}
    /\ cases' = Append(cases, <<r.idx, r.item>>)
    /\ UNCHANGED <<unitVars, pc, err, matchVars, filterVars, scoreVars, nbWorkers, nextRow,
                   running, order, json>>

ParseEnd ==
    /\ pc = "parse"
    /\ StageOver
    /\ pc' = "fill"
    /\ UNCHANGED <<unitVars, err, matchVars, filterVars, scoreVars, mainVars>>

\* lines 330-336: a null final error is replaced by the initial one, then
\* compute_scores is called
FillNull ==
    /\ pc = "fill"
    /\ LET t == [table EXCEPT !.rows = [k \in 1..Len(table.rows) |->
                    [c \in DOMAIN table.rows[k] |->
                        IF ReMatchTRE(c) /\ table.rows[k][c] = NaN
                        THEN table.rows[k][ReplaceTREbyIRE(c)]
                        ELSE table.rows[k][c]]]]
       IN  /\ table' = t
           /\ table0' = t
    /\ pc' = "scores_call"
    /\ UNCHANGED <<unitVars, err, matchVars, filterVars, minLandmarks, scores, mainVars>>

\* lines 338-356: the summary is written
WriteJson ==
    /\ pc = "scores_returned"
    /\ json' = [written |-> TRUE, aggregates |-> scores, cases |-> cases,
                requiredLandmarks |-> minLandmarks]
    /\ pc' = "main_done"
    /\ UNCHANGED <<unitVars, err, matchVars, filterVars, scoreVars, nbWorkers, nextRow, running,
                   ready, order, cases>>

Next ==
    \/ MainStart
    \/ FilterDispatch
    \/ \E w \in running : FilterFinish(w)
    \/ \E r \in ready : FilterConsume(r)
    \/ FilterEnd
    \/ StatDispatch
    \/ \E w \in running : \E o \in StatOutcomes : StatFinish(w, o)
    \/ \E r \in ready : StatConsume(r)
    \/ StatEnd
    \/ ExportPrepare
    \/ ParseDispatch
    \/ \E w \in running : ParseFinish(w)
    \/ \E r \in ready : ParseConsume(r)
    \/ ParseEnd
    \/ FillNull
    \/ ScoresResolve
    \/ ScoresAggregate
    \/ WriteJson

Spec == MainInit /\ [][Next]_vars

-----------------------------------------------------------------------------
(* Claims about main, checked under Spec *)

\* the row r is incomplete, a missing (NaN) overlap count differing from any count
IncompleteCase(r, minL) ==
    \/ r[COL_OVERLAP_INIT] = NaN
    \/ r[COL_OVERLAP_FINAL] = NaN
    \/ r[COL_OVERLAP_INIT] # r[COL_OVERLAP_FINAL]
    \/ (r[COL_FOUND_LNDS] # NaN /\ r[COL_FOUND_LNDS] < minL)

\* the labels of the rows of the table
Labels == Range(table.index)

\* C3: no aggregate statistic is computed until every row is resolved: the
\* filtering stage has written a match ratio for every row, the statistic stage
\* has finished for every row and the incomplete-case fallback has been applied
\* to the whole table.
C3_AggregateAfterResolution ==
    (pc = "scores_aggregate" \/ scores # NoScores) =>
        /\ COL_FOUND_LNDS \in table.columns
        /\ \A k \in 1..Len(table.rows) : table.rows[k][COL_FOUND_LNDS] # NaN
        /\ Range(order.filter) = Labels
        /\ Range(order.stat) = Labels
        /\ running = {} /\ ready = {}
        /\ \A k \in 1..Len(table.rows) :
              IncompleteCase(table.rows[k], minLandmarks) =>
                  /\ table.rows[k][COL_ROBUSTNESS] = 0
                  /\ table.rows[k][COL_TRE_MEAN] = table.rows[k][COL_IRE_MEAN]
                  /\ table.rows[k][COL_RTRE_MEAN] = table.rows[k][COL_RIRE_MEAN]

\* main ran to its end with a pool of workers, and a case with mismatched
\* overlap and raw robustness 1 was resolved before the report was made
C3_Witness ==
    /\ pc = "main_done"
    /\ nbWorkers >= 2
    /\ scores # NoScores
    /\ \E k \in 1..Len(table.rows) :
          /\ table0.rows[k][COL_ROBUSTNESS] = 100
          /\ table0.rows[k][COL_OVERLAP_FINAL] # table0.rows[k][COL_OVERLAP_INIT]
          /\ table.rows[k][COL_ROBUSTNESS] = 0

\* the table under sequential in-order execution of the filtering stage, from
\* row k on
RECURSIVE SequentialFilter(_, _)
SequentialFilter(t, k) ==
    IF k > Len(t.rows) THEN t
    ELSE LET r == FilterLandmarks(files[t.rows[k][COL_POINTS_MOVE]])
         IN  SequentialFilter(LocSet(t, t.index[k], COL_FOUND_LNDS, Round2(r.ratio)), k + 1)

\* the table t restricted to the columns cols
Restrict(t, cols) ==
    [columns |-> t.columns \cap cols, index |-> t.index,
     rows |-> [k \in 1..Len(t.rows) |-> [c \in (DOMAIN t.rows[k]) \cap cols |-> t.rows[k][c]]]]

\* C4: whatever the worker count and the completion order, the table after the
\* filtering stage is the table of sequential in-order execution: each ratio
\* cell holds the result of its own row, no row is added, removed or reordered.
C4_FilterStageOrderIndependent ==
    pc \notin {"main_start", "main_aborted", "filter", "main_raised"} =>
        /\ Restrict(table, {COL_POINTS_REF, COL_POINTS_MOVE, COL_STATUS, COL_FOUND_LNDS})
               = SequentialFilter(MergedTable(Len(files)), 1)
        /\ table.index = [k \in 1..Len(files) |-> k - 1]
        /\ \A k \in 1..Len(files) : table.rows[k][COL_POINTS_MOVE] = k

\* the stage is over, the second row finished before the first and their ratios differ
C4_Witness ==
    /\ pc = "stat"
    /\ Len(order.filter) >= 2
    /\ order.filter[1] = 1
    /\ order.filter[2] = 0
    /\ table.rows[1][COL_FOUND_LNDS] # table.rows[2][COL_FOUND_LNDS]

\* the labels s finished in table order
InTableOrder(s) == \A k \in 1..Len(s) : s[k] = table.index[k]

\* C5: the statistic stage and the case parsing run with worker count 1, and
\* then the rows are processed strictly one at a time in table order: never two
\* workers at once.
C5_SingleWriterStages ==
    /\ pc \in {"stat", "parse"} =>
          /\ Cardinality(running) + Cardinality(ready) <= 1
          /\ \A w \in running : w.idx = table.index[Len(order[pc]) + 1]
    /\ InTableOrder(order.stat)
    /\ InTableOrder(order.parse)

\* main was given a pool of workers, and the statistic stage is on its second row
C5_Witness ==
    /\ pc = "stat"
    /\ nbWorkers >= 2
    /\ Len(order.stat) = 1
    /\ Cardinality(running) = 1

\* C6: in the filtering stage a failure on one row becomes a degraded result
\* (ratio 0.0) of that row: no result carries an exception and main is never
\* ended by one, so every other row still receives its result.
C6_RowFailureDegraded ==
    /\ pc # "main_raised"
    /\ pc = "filter" => \A r \in ready : r.raised = "none"

-----------------------------------------------------------------------------
(* RankingEngine: draw_matrix_user_ranking(df_stat, higher_better)         *)
(* (birl/utilities/drawing.py). The matrix comes from                      *)
(* compute_matrix_user_ranking and is drawn by draw_heatmap with the row   *)
(* labels 1..len(df_stat) under the axis label 'Ranking', its cells being  *)
(* coloured by user: a cell value x is shown as df_stat.index[x]. The      *)
(* matrix is "sorted per column": row p of column c holds the position in  *)
(* df_stat.index of the user that is p-th best in c. How equal values are  *)
(* ordered is not fixed by these lines: every sorted order is possible.    *)

MaxUsers == 3

\* the scoring columns and the scores (in hundredths) of the tables ranked
Criteria == {"a", "b"}
StatTables == UNION {[1..n -> [Criteria -> {5, 10, 20}]] : n \in 1..MaxUsers}

\* the value a is strictly better than b under the direction
Better(a, b, higher) == IF higher THEN a > b ELSE a < b

\* the orders of the users 0..n-1 (positions in df_stat.index)
UserOrders(n) == {p \in [1..n -> 0..(n - 1)] : \A i, j \in 1..n : p[i] = p[j] => i = j}

\* the orders in which column c of df is sorted, best first
SortedOrders(df, c, higher) ==
    {p \in UserOrders(Len(df)) :
        \A i, j \in 1..Len(df) :
            i < j => ~Better(df[p[j] + 1][c], df[p[i] + 1][c], higher)}

InitRank ==
    /\ pc = "rank_call"
    /\ err = "none"
    /\ dfStat \in StatTables
    /\ higherBetter \in BOOLEAN
    /\ ranking = <<>>
    /\ PrepIdle
    /\ IoIdle
    /\ DropIdle
    /\ ScoresIdle
    /\ MainIdle
    /\ files = <<>>
    /\ outFiles = <<>>
    /\ ret = NoReturn
    /\ firstRun = NoFirstRun
    /\ setA = <<>>
    /\ setB = <<>>
    /\ thr = FilterThreshold
    /\ pairs = <<>>

\* lines 453-466: the matrix is computed and drawn
DrawMatrixUserRanking ==
    /\ pc = "rank_call"
    /\ \E o \in [Criteria -> UserOrders(Len(dfStat))] :
          /\ \A c \in Criteria : o[c] \in SortedOrders(dfStat, c, higherBetter)
          /\ ranking' = [p \in 1..Len(dfStat) |-> [c \in Criteria |-> o[c][p]]]
    /\ pc' = "rank_done"
    /\ UNCHANGED <<err, dfStat, higherBetter, prepVars, ioVars, dropVars, matchVars,
                   filterVars, scoreVars, mainVars>>

NextRank == DrawMatrixUserRanking

SpecRank == InitRank /\ [][NextRank]_vars

\* the number of users strictly better than user u in column c
NbBetter(df, c, higher, u) ==
    Cardinality({q \in 1..Len(df) : Better(df[q][c], df[u][c], higher)})

\* C21: the matrix has one row per user and holds, for every scoring column,
\* the competition rank of the user: 1 plus the number of users that are
\* strictly better under the direction, so that equal values share a rank.
C21_CompetitionRanking ==
    pc = "rank_done" =>
        \A u \in 1..Len(dfStat) : \A c \in Criteria :
            ranking[u][c] = 1 + NbBetter(dfStat, c, higherBetter, u)

-----------------------------------------------------------------------------
(* Claims about the exported summary, checked under Spec *)

\* C22: in the exported summary every case that the resolution treated as
\* incomplete (overlap mismatch or match ratio below the minimum) shows zero
\* robustness in its per-case entry, the robustness the aggregates were made of.
C22_IncompleteCasesShowZeroRobustness ==
    pc = "main_done" =>
        \A k \in 1..Len(json.cases) :
            IncompleteCase(table.rows[k], minLandmarks) =>
                /\ json.cases[k][1] = table.index[k]
                /\ json.cases[k][2].robustness = 0
                /\ json.cases[k][2].robustness = table.rows[k][COL_ROBUSTNESS]

-----------------------------------------------------------------------------
(* The preparation of the merged table in main (lines 423-425):            *)
(* replicate_missing_warped_landmarks, then normalize_exec_time. Both are  *)
(* also entry points of their own. A path cell is a record [root, name,    *)
(* case]: the root is "" for the relative path of the table; the name says *)
(* which landmarks of the case the path leads to. The normalised time is   *)
(* kept as an exact fraction <<n, d>>.                                     *)

COL_POINTS_MOVE_WARP == <<"Warped source landmarks", "", "">>
COL_TIME == <<"Execution time [minutes]", "", "">>
CMP_THREADS == {"1", "n"}

NullPath == [root |-> "", name |-> "null", case |-> 0]
MovePath(k) == [root |-> "", name |-> "move", case |-> k]
WarpPath(k) == [root |-> "", name |-> "warp", case |-> k]

\* update_path(path, pre_path=root): the path under the given root
UpdatePath(p, root) == [p EXCEPT !.root = root]

\* os.path.isfile of a path of the table taken under the experiment folder
IsFileExpt(p) == <<p.case, p.name>> \in exptFiles

\* df[COL_TIME].max(): the missing values are skipped
MinTime(t) ==
    LET ts == {t.rows[k][COL_TIME] : k \in 1..Len(t.rows)} \ {NaN}
    IN  IF ts = {} THEN NaN ELSE CHOOSE m \in ts : \A x \in ts : m <= x
MaxTime(t) ==
    LET ts == {t.rows[k][COL_TIME] : k \in 1..Len(t.rows)} \ {NaN}
    IN  IF ts = {} THEN NaN ELSE CHOOSE m \in ts : \A x \in ts : x <= m

\* replicate_missing_warped_landmarks(df_experiments, path_dataset, path_experiment):
\* the table is changed in place, also by the lines that ran before a KeyError
ReplicateMissingWarpedLandmarks(t) ==
    LET n       == Len(t.rows)
        missing == {k \in 1..n : t.rows[k][COL_POINTS_MOVE_WARP] = NullPath}
        \* lines 370-371
        rows1   == [k \in 1..n |->
                      IF k \in missing
                      THEN [t.rows[k] EXCEPT ![COL_POINTS_MOVE_WARP] = t.rows[k][COL_POINTS_MOVE]]
                      ELSE t.rows[k]]
        \* lines 373-374
        rows2   == [k \in 1..n |->
                      IF k \in missing THEN [rows1[k] EXCEPT ![COL_TIME] = MaxTime(t)]
                      ELSE rows1[k]]
        \* lines 378-383
        rows3   == [k \in 1..n |->
                      IF IsFileExpt(rows2[k][COL_POINTS_MOVE_WARP]) THEN rows2[k]
                      ELSE [rows2[k] EXCEPT ![COL_POINTS_MOVE_WARP] =
                                UpdatePath(rows2[k][COL_POINTS_MOVE], "dataset")]]
    IN  IF COL_TIME \notin t.columns
        THEN [raised |-> "KeyError", table |-> [t EXCEPT !.rows = rows1]]
        ELSE [raised |-> "none", table |-> [t EXCEPT !.rows = rows3]]

\* np.mean of the timings of a computer-performance JSON over CMP_THREADS
MeanTimes(comp) == <<comp.times["1"] + comp.times["n"], Cardinality(CMP_THREADS)>>

\* the quotient of two fractions, and the product of a cell and a fraction
FracDivInverse(a, b) == <<a[2] * b[1], a[1] * b[2]>>
FracDiv(a, b) == <<a[1] * b[2], a[2] * b[1]>>
TimesFrac(v, q) == IF v = NaN THEN <<NaN, 0>> ELSE <<v * q[1], q[2]>>

\* lines 183-185: the coefficient
Coef(ref, exp) == FracDiv(MeanTimes(ref), MeanTimes(exp))

\* normalize_exec_time(df_experiments, path_experiments, path_comp_bm)
NormalizeExecTime(t, ref, exp) ==
    IF COL_TIME \notin t.columns THEN t
    ELSE IF ~ref.given THEN t
    ELSE IF ~(ref.exists /\ exp.exists) THEN t
    ELSE [columns |-> t.columns \cup {COL_NORM_TIME},
          index   |-> t.index,
          rows    |-> [k \in 1..Len(t.rows) |->
                         [c \in t.columns \cup {COL_NORM_TIME} |->
                             IF c = COL_NORM_TIME
                             THEN TimesFrac(t.rows[k][COL_TIME], Coef(ref, exp))
                             ELSE t.rows[k][c]]]]

\* the merged tables: per case the moving landmarks path, the warped landmarks
\* path (null when the submission gives none) and the execution time (when the
\* results have the column; missing for a case without a result)
PrepRow(k, warp, time, hasTime) ==
    IF hasTime
    THEN (COL_POINTS_MOVE :> MovePath(k)) @@ (COL_POINTS_MOVE_WARP :> warp)
            @@ (COL_TIME :> time)
    ELSE (COL_POINTS_MOVE :> MovePath(k)) @@ (COL_POINTS_MOVE_WARP :> warp)
PrepTable(n, warped, times, hasTime) ==
    [columns |-> {COL_POINTS_MOVE, COL_POINTS_MOVE_WARP}
                    \cup (IF hasTime THEN {COL_TIME} ELSE {}),
     index   |-> [k \in 1..n |-> k - 1],
     rows    |-> [k \in 1..n |->
                    PrepRow(k, IF k \in warped THEN WarpPath(k) ELSE NullPath,
                            times[k], hasTime)]]
PrepTables ==
    UNION {{PrepTable(n, w, ts, TRUE) : w \in SUBSET (1..n), ts \in [1..n -> {NaN, 1, 2}]}
              \cup {PrepTable(n, w, <<NaN, NaN>>, FALSE) : w \in SUBSET (1..n)}
           : n \in {1, 2}}

\* the computer-performance JSON files: missing, or holding the two timings
CompFiles ==
    {[given |-> TRUE, exists |-> FALSE, times |-> <<>>]}
        \cup {[given |-> TRUE, exists |-> TRUE, times |-> ts] : ts \in [CMP_THREADS -> {1, 3}]}

InitPrepare ==
    /\ pc = "prepare"
    /\ err = "none"
    /\ table \in PrepTables
    /\ table0 = table
    /\ minLandmarks = 100
    /\ scores = NoScores
    /\ exptFiles \in SUBSET {<<k, nm>> : k \in 1..Len(table.rows), nm \in {"warp", "move"}}
    /\ compRef \in {NoComp} \cup CompFiles
    /\ compExp \in CompFiles
    /\ RankIdle
    /\ IoIdle
    /\ DropIdle
    /\ MainIdle
    /\ files = <<>>
    /\ outFiles = <<>>
    /\ ret = NoReturn
    /\ firstRun = NoFirstRun
    /\ setA = <<>>
    /\ setB = <<>>
    /\ thr = FilterThreshold
    /\ pairs = <<>>

\* line 423
DoReplicate ==
    /\ pc = "prepare"
    /\ LET r == ReplicateMissingWarpedLandmarks(table)
       IN  /\ table' = r.table
           /\ err' = r.raised
           /\ pc' = IF r.raised = "none" THEN "replicated" ELSE "replicate_raised"
    /\ table0' = table
    /\ UNCHANGED <<minLandmarks, scores, prepVars, rankVars, ioVars, dropVars, matchVars,
                   filterVars, mainVars>>

\* line 425, or a call of normalize_exec_time on a table as it was merged
DoNormalize ==
    /\ pc \in {"prepare", "replicated"}
    /\ table' = NormalizeExecTime(table, compRef, compExp)
    /\ table0' = table
    /\ pc' = "normalized"
    /\ UNCHANGED <<err, minLandmarks, scores, prepVars, rankVars, ioVars, dropVars,
                   matchVars, filterVars, mainVars>>

NextPrepare == DoReplicate \/ DoNormalize

SpecPrepare == InitPrepare /\ [][NextPrepare]_vars

-----------------------------------------------------------------------------
(* Claims about the preparation, checked under SpecPrepare *)

\* the sum of the timings of a computer-performance JSON
SumTimes(comp) == comp.times["1"] + comp.times["n"]

\* both computer-performance files were named and found
BothCompFiles == compRef.given /\ compRef.exists /\ compExp.exists

\* the table was left as it was, without a normalised-time column
NormalizationSkipped == table = table0 /\ COL_NORM_TIME \notin table.columns

\* every row has its time multiplied by mean(reference) / mean(submission), the
\* other cells being kept
NormalizationApplied ==
    /\ table.columns = table0.columns \cup {COL_NORM_TIME}
    /\ \A k \in 1..Len(table.rows) :
          /\ \A c \in table0.columns : table.rows[k][c] = table0.rows[k][c]
          /\ IF table0.rows[k][COL_TIME] = NaN
             THEN table.rows[k][COL_NORM_TIME][1] = NaN
             ELSE table.rows[k][COL_NORM_TIME][1] * SumTimes(compExp)
                     = table0.rows[k][COL_TIME] * SumTimes(compRef)
                          * table.rows[k][COL_NORM_TIME][2]

\* C23 as stated: normalize_exec_time skips (table unchanged, no normalised
\* column) when the reference path is not given or one of the two JSON files is
\* missing, and normalises every row whenever both files exist.
C23_NormalizedWhenBothFiles ==
    pc = "normalized" =>
        IF BothCompFiles THEN NormalizationApplied ELSE NormalizationSkipped

\* C23 (amended): normalize_exec_time skips, without raising, when the table has
\* no execution-time column, when the reference path is not given or when one of
\* the two JSON files is missing; otherwise every row's normalised time is its
\* raw time multiplied by mean(reference times) / mean(submission times).
C23_NormalizedWhenTimeAndBothFiles ==
    pc = "normalized" =>
        /\ err = "none"
        /\ IF BothCompFiles /\ COL_TIME \in table0.columns
           THEN NormalizationApplied
           ELSE NormalizationSkipped

\* a table was normalised with a coefficient other than 1
C23_Witness ==
    /\ pc = "normalized"
    /\ BothCompFiles
    /\ COL_TIME \in table0.columns
    /\ SumTimes(compRef) # SumTimes(compExp)
    /\ \E k \in 1..Len(table.rows) :
          /\ table0.rows[k][COL_TIME] = 2
          /\ table.rows[k][COL_NORM_TIME] # <<2, 1>>

-----------------------------------------------------------------------------
(* Claims about the start of main, checked under Spec *)

\* C24: without the results file of the submission main ends in AttributeError
\* before any stage runs: no row is processed and no landmark file, no CSV and
\* no JSON is written under the output root.
C24_MissingResultsAborts ==
    ~resultsExists =>
        /\ pc \in {"main_start", "main_aborted"}
        /\ pc = "main_aborted" => err = "AttributeError"
        /\ \A k \in 1..Len(outFiles) : outFiles[k] = NoOutput
        /\ csv = NoCsv
        /\ json = NoJson
        /\ table = EmptyTable
        /\ order = NoOrder

\* main was started on two cases without the results file and has raised
C24_Witness ==
    /\ pc = "main_aborted"
    /\ ~resultsExists
    /\ Len(files) = 2

\* the time m is the largest execution time of the table t, NaN when it has none
IsMaxTime(t, m) ==
    LET known == {k \in 1..Len(t.rows) : t.rows[k][COL_TIME] # NaN}
    IN  IF known = {} THEN m = NaN
        ELSE /\ \E k \in known : t.rows[k][COL_TIME] = m
             /\ \A k \in known : t.rows[k][COL_TIME] <= m

\* C25: when replicate_missing_warped_landmarks has returned, no row has a null
\* warped-landmarks path: a row whose path was null, or whose warped file is
\* not under the experiment folder, carries the path of the moving landmarks of
\* its case; a row whose warped file is there keeps its path; and a row whose
\* path was null has the largest execution time of the table.
C25_MissingWarpedReplicated ==
    pc = "replicated" =>
        \A k \in 1..Len(table.rows) :
            LET was == table0.rows[k][COL_POINTS_MOVE_WARP]
                now == table.rows[k][COL_POINTS_MOVE_WARP]
            IN  /\ now # NullPath
                /\ (was = NullPath \/ ~IsFileExpt(was)) =>
                       (now.name = "move" /\ now.case = table.rows[k][COL_POINTS_MOVE].case)
                /\ (was # NullPath /\ IsFileExpt(was)) => now = was
                /\ was = NullPath => IsMaxTime(table0, table.rows[k][COL_TIME])
                /\ was # NullPath => table.rows[k][COL_TIME] = table0.rows[k][COL_TIME]

\* of two cases, one had no warped path and a shorter time than the other, whose
\* warped file is in the experiment folder
C25_Witness ==
    /\ pc = "replicated"
    /\ Len(table.rows) = 2
    /\ table0.rows[1][COL_POINTS_MOVE_WARP] = NullPath
    /\ table0.rows[1][COL_TIME] = 1
    /\ table.rows[1][COL_TIME] = 2
    /\ table.rows[1][COL_POINTS_MOVE_WARP] = UpdatePath(MovePath(1), "dataset")
    /\ table.rows[2][COL_POINTS_MOVE_WARP] = WarpPath(2)

-----------------------------------------------------------------------------
(* BmDROP2._extract_warped_image_landmarks(item) (bm_experiments/bm_DROP2.py) *)
(* A deformation field file is a record [exists, shape, data]: data maps a    *)
(* position <<i, j>> of the first slice to the shift stored there.            *)

MissingField == [exists |-> FALSE, shape |-> <<0, 0>>, data |-> <<>>]
ConstField(w, h, v) ==
    [exists |-> TRUE, shape |-> <<w, h>>,
     data |-> [p \in (0..(w - 1)) \X (0..(h - 1)) |-> v]]
FieldFiles == {MissingField, ConstField(1, 2, 1), ConstField(2, 2, 1), ConstField(2, 2, 0)}

\* __parse_shift(path_deform_, lnds), lines 187-196
ParseShift(f, lnds) ==
    IF ~f.exists THEN [raised |-> "AssertionError", shift |-> <<>>]
    ELSE IF Len(lnds) = 0 THEN [raised |-> "ValueError", shift |-> <<>>]
    ELSE IF \E k \in 1..Len(lnds) : lnds[k][1] >= f.shape[1] \/ lnds[k][2] >= f.shape[2]
    THEN [raised |-> "AssertionError", shift |-> <<>>]
    ELSE [raised |-> "none", shift |-> [k \in 1..Len(lnds) |-> f.data[lnds[k]]]]

\* extract_landmarks_shift_from_nifty(path_deform_x, path_deform_y, lnds)
ExtractLandmarksShift(fx, fy, lnds) ==
    LET sx == ParseShift(fx, lnds)
        sy == ParseShift(fy, lnds)
    IN  IF sx.raised # "none" THEN sx
        ELSE IF sy.raised # "none" THEN sy
        ELSE [raised |-> "none",
              shift |-> [k \in 1..Len(lnds) |-> <<sx.shift[k], sy.shift[k]>>]]

\* line 158: np.zeros(lnds_ref.shape)
ShiftOnFailureOnes(lnds) == [k \in 1..Len(lnds) |-> <<1, 1>>]
ShiftOnFailure(lnds) == [k \in 1..Len(lnds) |-> <<0, 0>>]

\* lines 132-166
ExtractWarpedImageLandmarks(item) ==
    IF ~item.image
    THEN [raised |-> "FileNotFoundError", out |-> NoDropOut]
    ELSE IF ~item.lnds.exists
    THEN [raised |-> "AssertionError", out |-> NoDropOut]
    ELSE LET ref   == item.lnds.pts
             r     == ExtractLandmarksShift(item.fieldX, item.fieldY, ref)
             shift == IF r.raised = "none" THEN r.shift ELSE ShiftOnFailure(ref)
             warp  == [k \in 1..Len(ref) |->
                         <<ref[k][1] + shift[k][1], ref[k][2] + shift[k][2]>>]
         IN  [raised |-> "none",
              out |-> [returned |-> TRUE, readFailed |-> r.raised # "none",
                       saved |-> SaveLandmarks(MissingFile, warp),
                       paths |-> {"COL_IMAGE_MOVE_WARP", "COL_POINTS_REF_WARP"}]]

\* the registration folder: the warped image output.jpeg, the landmarks to be
\* transformed and the two deformation fields
DropItems ==
    [image : BOOLEAN, lnds : {MissingFile} \cup {FileOf(s) : s \in LandmarkSets},
     fieldX : FieldFiles, fieldY : FieldFiles]

InitDrop ==
    /\ pc = "drop_call"
    /\ err = "none"
    /\ dropItem \in DropItems
    /\ dropOut = NoDropOut
    /\ RankIdle
    /\ PrepIdle
    /\ IoIdle
    /\ ScoresIdle
    /\ MainIdle
    /\ files = <<>>
    /\ outFiles = <<>>
    /\ ret = NoReturn
    /\ firstRun = NoFirstRun
    /\ setA = <<>>
    /\ setB = <<>>
    /\ thr = FilterThreshold
    /\ pairs = <<>>

DoExtract ==
    /\ pc = "drop_call"
    /\ LET r == ExtractWarpedImageLandmarks(dropItem)
       IN  /\ dropOut' = r.out
           /\ err' = r.raised
           /\ pc' = IF r.raised = "none" THEN "drop_returned" ELSE "drop_raised"
    /\ UNCHANGED <<dropItem, rankVars, prepVars, ioVars, matchVars, filterVars, scoreVars,
                   mainVars>>

NextDrop == DoExtract

SpecDrop == InitDrop /\ [][NextDrop]_vars

\* reading the deformation fields for the landmarks fails: a file is missing or
\* a landmark lies beyond a field (there is no largest landmark when none is given)
FieldsUnreadable(item) ==
    \/ ~item.fieldX.exists
    \/ ~item.fieldY.exists
    \/ item.lnds.pts = <<>>
    \/ \E k \in 1..Len(item.lnds.pts) : \E f \in {item.fieldX, item.fieldY} :
          item.lnds.pts[k][1] >= f.shape[1] \/ item.lnds.pts[k][2] >= f.shape[2]

\* C26: when _extract_warped_image_landmarks gets to read the deformation fields
\* and the reading fails, whatever the reason, the call still returns the two
\* result paths without raising, and the warped landmarks it saves are the
\* reference landmarks unchanged (a zero shift).
C26_FieldFailureRecovered ==
    (pc # "drop_call" /\ dropItem.image /\ dropItem.lnds.exists
        /\ FieldsUnreadable(dropItem)) =>
            /\ pc = "drop_returned"
            /\ err = "none"
            /\ dropOut.returned
            /\ dropOut.readFailed
            /\ dropOut.paths = {"COL_IMAGE_MOVE_WARP", "COL_POINTS_REF_WARP"}
            /\ dropOut.saved = FileOf(dropItem.lnds.pts)

\* both fields are there and would shift, but a landmark lies beyond one of them
C26_Witness ==
    /\ pc = "drop_returned"
    /\ dropItem.fieldX = ConstField(1, 2, 1)
    /\ dropItem.fieldY = ConstField(2, 2, 1)
    /\ dropItem.lnds.pts = <<<<0, 0>>, <<1, 1>>>>
    /\ dropOut.saved = FileOf(dropItem.lnds.pts)

-----------------------------------------------------------------------------
(* Claims about the effect of the resolution, checked under SpecScores *)

\* the row r is complete, as the claims state it (no missing value equals another)
CompleteRowOf(r, minL) ==
    /\ NumEq(r[COL_OVERLAP_INIT], r[COL_OVERLAP_FINAL])
    /\ r[COL_FOUND_LNDS] # NaN
    /\ r[COL_FOUND_LNDS] >= minL

\* the columns no resolution writes: overlap, match ratio, status, initial errors
KeptColumns(t) ==
    {c \in t.columns :
        \/ c \in {COL_OVERLAP_INIT, COL_OVERLAP_FINAL, COL_FOUND_LNDS, COL_STATUS}
        \/ c[2] = "IRE"}

\* C27: the resolution of compute_scores changes only incomplete rows: a
\* complete row keeps its TRE/rTRE cells and its robustness, every row keeps
\* its overlap, match-ratio, status and IRE cells, and resolving the resolved
\* table again changes nothing.
C27_ResolutionFrame ==
    pc # "scores_call" =>
        /\ table.columns = table0.columns
        /\ table.index = table0.index
        /\ \A k \in 1..Len(table0.rows) :
              /\ \A c \in KeptColumns(table0) : table.rows[k][c] = table0.rows[k][c]
              /\ (COL_OVERLAP_FINAL \in table0.columns
                    /\ CompleteRowOf(table0.rows[k], minLandmarks)) =>
                     \A c \in ColsFinal(table0) \cup {COL_ROBUSTNESS} :
                         table.rows[k][c] = table0.rows[k][c]
        /\ Resolve(table, minLandmarks).table = table

\* of two rows the incomplete one was rewritten, and the complete one, robust
\* and with final errors that differ from the initial ones, was kept
C27_Witness ==
    /\ pc = "scores_aggregate"
    /\ Len(table.rows) = 2
    /\ \E k, m \in 1..2 :
          /\ CompleteRowOf(table0.rows[k], minLandmarks)
          /\ table0.rows[k][COL_ROBUSTNESS] = 100
          /\ table0.rows[k][COL_TRE_MEAN] # table0.rows[k][COL_IRE_MEAN]
          /\ ~CompleteRowOf(table0.rows[m], minLandmarks)
          /\ table.rows[m] # table0.rows[m]

\* the rows of the table t that are complete and have robustness > 0.5
RobustComplete(t, minL) ==
    {k \in 1..Len(t.rows) : CompleteRowOf(t.rows[k], minL) /\ NumGt(t.rows[k][COL_ROBUSTNESS], 50)}

\* C28: no incomplete case is in the robust subset (robustness > 0.5), which is
\* taken after the fallback has set the robustness of the incomplete rows to 0:
\* every row of it has equal overlap counts and a match ratio of at least
\* min_landmarks, and the robust aggregates are those of the complete robust rows
\* of the table as it was given.
C28_RobustSubsetComplete ==
    pc \in {"scores_aggregate", "scores_returned"} =>
        /\ \A k \in RobustSubset(table) :
              /\ CompleteRowOf(table0.rows[k], minLandmarks)
              /\ CompleteRowOf(table.rows[k], minLandmarks)
        /\ pc = "scores_returned" =>
              \A m \in FullyReported :
                  scores.report[TopKey("Average", m[1], TRUE)]
                      = Mean(table0.rows, m[2], RobustComplete(table0, minLandmarks))

\* the report was made of a table with a robust complete row and an incomplete
\* row that came with robustness 1
C28_Witness ==
    /\ pc = "scores_returned"
    /\ Len(table.rows) = 2
    /\ \E k, m \in 1..2 :
          /\ k \in RobustSubset(table)
          /\ ~CompleteRowOf(table0.rows[m], minLandmarks)
          /\ table0.rows[m][COL_ROBUSTNESS] = 100
          /\ table0.rows[m][COL_RTRE_MEAN] # table0.rows[k][COL_RTRE_MEAN]

====
